---------------------------- MODULE Spec2Model ----------------------------
(***************************************************************************)
(* MPICommunicatorImpl of Source/CNTKv2LibraryDll/DistributedCommunicator  *)
(* .cpp: one communicator (the worker of rank `rank` among `numNodes`      *)
(* workers), its staging buffers and transfer engines, and the aggregation *)
(* calls made on it.  A call is followed statement by statement through    *)
(* Aggregate / AggregateInPlace / AggregateAsync, AggregateImpl and        *)
(* Initialize; the device copies and the all-reduce requests it issues     *)
(* complete asynchronously, in any order the engines and the transport     *)
(* allow.                                                                  *)
(*                                                                         *)
(* The other workers are represented by the data they contribute: every    *)
(* worker w holds, for the tensor at position i, the values Val(w, i, e),  *)
(* and issues the same sequence of reductions.                             *)
(*                                                                         *)
(* A Value is modelled by its array view (device, data type, storage       *)
(* format, element count, data); validity masks are not modelled, and the  *)
(* caller of AggregateAsync is taken to keep its request alive until the   *)
(* task has run.  A fatal error ends the process: no call is started after *)
(* a failed one, but copies and reductions already issued may still        *)
(* complete.  Memory is modelled by its contents: a write of more elements *)
(* than a view has (a pair of different sizes, in a build without          *)
(* assert) shows as data longer than the view.                             *)
(*                                                                         *)
(* The membership set and the current worker are the constructor's; the    *)
(* three unimplemented operations are called by the caller's thread, when  *)
(* it is not inside a call.  Spec follows one call on any request,         *)
(* SpecCalls a sequence of calls, SpecConcurrent two calls of which the    *)
(* second may be made while an AggregateAsync task still runs, and         *)
(* SpecLive one call on a valid request under weak fairness of everything  *)
(* that runs without the caller.                                           *)
(***************************************************************************)
EXTENDS Integers, Sequences, FiniteSets, TLC

\* ------------------------------------------------------------------ bounds
MaxWorkers == 2        \* workers in use: 1..MaxWorkers
MaxValues  == 2        \* tensors per request: 0..MaxValues
MaxCalls   == 2        \* aggregation calls made on the communicator
NumElements == 2       \* element count of every input tensor

CPUDEVICE == -1

CallIds == {1, 2}

\* ------------------------------------------------------------ collaborators
CPUDevice == [Type |-> "CPU", Id |-> 0]
GPUDevice(id) == [Type |-> "GPU", Id |-> id]
Devices == {CPUDevice, GPUDevice(0), GPUDevice(1)}
DataTypes == {"Float", "Double", "Unknown"}
StorageFormats == {"Dense", "SparseCSC"}

\* sizeof(float), sizeof(double)
DataTypeSize(t) == IF t = "Float" THEN 4 ELSE 8

\* The value worker w holds in element e of its tensor at position i.
Val(w, i, e) == 100 * (w + 1) + 10 * i + e

WorkerData(w, i, n) == [e \in 1..n |-> Val(w, i, e)]

RECURSIVE SumWorkers(_, _, _, _)
SumWorkers(ws, upto, i, e) ==
    IF upto < 0 THEN 0
    ELSE (IF upto \in ws THEN Val(upto, i, e) ELSE 0) + SumWorkers(ws, upto - 1, i, e)

\* ------------------------------------------------------------------- state
VARIABLES
    numNodes,                  \* m_mpi->NumNodesInUse()
    rank,                      \* m_mpi->CurrentNodeRank()
    assertsEnabled,            \* the build keeps assert() (no NDEBUG)
    m_gpuDataTransferers,      \* sequence of transfer engines
    m_intermediateCPUBuffers,  \* sequence of staging buffers
    m_workers,                 \* the membership set
    m_currentWorker,           \* the descriptor of this worker
    calls,                     \* per call id: the call's frame
    ncalls,                    \* calls started so far
    lastOp,                    \* the last unimplemented operation called, and how it ended
    workload                   \* what the caller does with the communicator

vars == <<numNodes, rank, assertsEnabled, m_gpuDataTransferers,
          m_intermediateCPUBuffers, m_workers, m_currentWorker, calls, ncalls,
          lastOp, workload>>

\* What the constructor fixes for the life of the communicator.
fixed == <<numNodes, rank, assertsEnabled, m_workers, m_currentWorker>>

\* ----------------------------------------------------------- worker topology
\* m_mpi->CurrentNodeName(): the host name of the worker of a rank.
NodeNames == <<"node0", "node1", "node2", "node3">>
CurrentNodeName(r) == NodeNames[r + 1]

\* A constructor that leaves every host identity empty.
WorkerAtUnresolved(i, current) == [m_globalRank |-> i, m_hostId |-> ""]

\* The descriptor the constructor inserts for rank i.
WorkerAt(i, current) ==
    IF i = current.m_globalRank THEN current ELSE [m_globalRank |-> i, m_hostId |-> ""]

\* The constructor's loop over i = from .. n - 1.
RECURSIVE InsertWorkers(_, _, _)
InsertWorkers(from, n, current) ==
    IF from >= n THEN {}
    ELSE {WorkerAt(from, current)} \cup InsertWorkers(from + 1, n, current)

\* Workers() returns a copy of the membership set, CurrentWorker() a
\* reference to the descriptor of this worker.
Workers == m_workers
CurrentWorker == m_currentWorker

\* -------------------------------------------------------------- array views
\* GetBufferSize (only called where the data type is known to the callee)
GetBufferSize(view) == view.TotalSize * DataTypeSize(view.DataType)

\* GetDataBuffer succeeds for Float and Double and raises LogicError otherwise
GetDataBufferFails(view) == view.DataType \notin {"Float", "Double"}

\* GetNonCPUDevice: the device of the first value that is not on the CPU
RECURSIVE FirstNonCPU(_, _)
FirstNonCPU(values, k) ==
    IF k > Len(values) THEN CPUDevice
    ELSE IF values[k].Device.Type # "CPU" THEN values[k].Device
    ELSE FirstNonCPU(values, k + 1)

GetNonCPUDevice(values) == FirstNonCPU(values, 1)


\* ------------------------------------------------------------------ requests
\* What a caller can put at one position of a request.
DenseShapes == [Device : Devices, DataType : {"Float", "Double"}, StorageFormat : {"Dense"}]

TensorShapes ==
    [Device : Devices, DataType : DataTypes, StorageFormat : {"Dense"}]
      \cup [Device : Devices, DataType : {"Float"}, StorageFormat : {"SparseCSC"}]

RequestsOver(shapes) == UNION {[1..n -> shapes] : n \in 0..MaxValues}

\* The requests of the workload "concurrent": one GPU-resident tensor each.
GpuRequests == [{1} -> [Device : {GPUDevice(0)}, DataType : {"Float", "Double"},
                        StorageFormat : {"Dense"}]]

\* Workload "one call": a single call, on any request.  Workload "calls": up
\* to MaxCalls calls, one after the other, on dense requests of a supported
\* type.  Workload "concurrent": two calls, each on one GPU-resident tensor,
\* the second possibly made while the first still runs in the background.
\* Workload "valid call": a single call, on a dense request of a supported type.
Requests ==
    CASE workload = "calls"      -> RequestsOver(DenseShapes)
      [] workload = "valid call" -> RequestsOver(DenseShapes)
      [] workload = "concurrent" -> GpuRequests
      [] OTHER                   -> RequestsOver(TensorShapes)

CallBudget ==
    CASE workload = "calls"      -> MaxCalls
      [] workload = "concurrent" -> Cardinality(CallIds)
      [] OTHER                   -> 1

\* The caller's tensor at position k of this worker's request.
InputTensor(shape, k) ==
    [Device |-> shape.Device, DataType |-> shape.DataType,
     StorageFormat |-> shape.StorageFormat, TotalSize |-> NumElements,
     data |-> WorkerData(rank, k, NumElements)]

\* What a freshly constructed array view may hold before anything is written.
Garbage == {0, 1}

\* MakeSharedObject<NDArrayView>(dataType, shape, device): dense, same type,
\* shape and device, contents not yet written.
FreshView(dataType, totalSize, device, g) ==
    [Device |-> device, DataType |-> dataType, StorageFormat |-> "Dense",
     TotalSize |-> totalSize, data |-> [e \in 1..totalSize |-> g]]

\* ------------------------------------------------------------------- frames
NullRequest == [state |-> "null", send |-> <<>>, recv |-> <<"none", 0>>]

IdleCall ==
    [pc |-> "idle", kind |-> "none", heap |-> <<>>, heap0 |-> <<>>,
     inputValues |-> <<>>, outputValues |-> <<>>, i |-> 0,
     numGPUValues |-> 0, lastGpuDevice |-> CPUDevice, indices |-> <<>>,
     allReduceRequests |-> <<>>, numAllReduceRequestsCompleted |-> 0,
     err |-> "none", nAllReduce |-> 0, nWaitAny |-> 0, nCopies |-> 0,
     sync |-> <<>>, d2hIssued |-> {}, h2dIssued |-> {}, h2dDone |-> {},
     overlaps |-> FALSE]

\* No unimplemented operation has been called.
NoOp == [op |-> "none", outcome |-> "none"]

\* Call d runs in the task AggregateAsync handed it to.
InBackground(d) ==
    calls[d].kind = "AggregateAsync" /\ calls[d].pc \notin {"idle", "returned", "failed"}

\* The caller's thread is not inside a call, and no fatal error was raised.
CallerFree ==
    /\ lastOp = NoOp
    /\ \A d \in CallIds : calls[d].pc \in {"idle", "returned"} \/ InBackground(d)

\* The caller keeps one call in flight at a time, and a fatal error is final.
\* In the workload "concurrent" the caller does not wait for a call that
\* runs in the background before it makes the next one.
CanStart(c) ==
    /\ ncalls < CallBudget
    /\ lastOp = NoOp
    /\ IF workload = "concurrent"
       THEN c = ncalls + 1 /\ CallerFree
       ELSE c = 1 /\ \A d \in CallIds : calls[d].pc \in {"idle", "returned"}

\* The frame of a call of `kind` on the request `req`, at the entry of the
\* public operation.
NewCall(kind, req) ==
    LET n == Len(req)
        ins == [k \in 1..n |-> InputTensor(req[k], k)]
    IN [IdleCall EXCEPT !.pc = "entry", !.kind = kind, !.heap = ins, !.heap0 = ins,
                        !.inputValues = [k \in 1..n |-> k],
                        !.outputValues = [k \in 1..n |-> k],
                        !.overlaps = \E d \in CallIds : InBackground(d)]

Values(f) == [k \in 1..Len(f.inputValues) |-> f.heap[f.inputValues[k]]]

Fail(f, e) == [f EXCEPT !.pc = "failed", !.err = e]

\* AggregateImpl up to the call of Initialize: the two fast exits.
EnterImpl(f) ==
    IF numNodes = 1 THEN [f EXCEPT !.pc = "returned"]
    ELSE IF Len(f.inputValues) = 0 THEN [f EXCEPT !.pc = "returned"]
    ELSE [f EXCEPT !.pc = "init", !.i = 1, !.numGPUValues = 0,
                   !.lastGpuDevice = CPUDevice,
                   !.indices = [k \in 1..Len(f.inputValues) |-> CPUDEVICE]]

\* The compute-stream event created and waited on when a value is on a GPU.
SyncOnMainStream(f, who) ==
    IF GetNonCPUDevice(Values(f)).Type # "CPU"
    THEN [f EXCEPT !.sync = f.sync \o <<"record:" \o who, "wait:" \o who>>]
    ELSE f

\* An Aggregate that hands the inputs to AggregateImpl as outputs.
WithInputsAsOutputs(f, g) == f

\* Aggregate's first loop: one fresh output view per input view.
WithFreshOutputs(f, g) ==
    LET n == Len(f.inputValues)
        outs == [k \in 1..n |->
                   FreshView(f.heap[k].DataType, f.heap[k].TotalSize, f.heap[k].Device, g)]
    IN [f EXCEPT !.heap = f.heap \o outs, !.heap0 = f.heap \o outs,
                 !.outputValues = [k \in 1..n |-> n + k]]

AggregateBody(f, g) == EnterImpl(SyncOnMainStream(WithFreshOutputs(f, g), "Aggregate"))

\* ------------------------------------------------------- public operations
Aggregate(c) ==
    /\ CanStart(c)
    /\ \E req \in Requests, g \in Garbage :
          calls' = [calls EXCEPT ![c] = AggregateBody(NewCall("Aggregate", req), g)]
    /\ ncalls' = ncalls + 1
    /\ UNCHANGED <<fixed, lastOp, m_gpuDataTransferers,
                   m_intermediateCPUBuffers, workload>>

AggregateInPlace(c) ==
    /\ CanStart(c)
    /\ \E req \in Requests :
          calls' = [calls EXCEPT ![c] =
                      EnterImpl(SyncOnMainStream(NewCall("AggregateInPlace", req),
                                                 "AggregateInPlace"))]
    /\ ncalls' = ncalls + 1
    /\ UNCHANGED <<fixed, lastOp, m_gpuDataTransferers,
                   m_intermediateCPUBuffers, workload>>

\* An AggregateAsync that creates no event before it hands the call over.
CallerSyncNone(device) == <<>>

\* AggregateAsync before std::async: MatrixComputeStreamEvent::Create records
\* the event on the compute stream of the device, on the calling thread.
CallerSync(device) == IF device.Type # "CPU" THEN <<"record:caller">> ELSE <<>>

\* The calling thread: the event is created here, the task only waits on it.
AggregateAsync(c) ==
    /\ CanStart(c)
    /\ \E req \in Requests :
          LET f == NewCall("AggregateAsync", req)
          IN calls' = [calls EXCEPT ![c] =
                 [f EXCEPT !.pc = "task",
                           !.sync = CallerSync(GetNonCPUDevice(Values(f)))]]
    /\ ncalls' = ncalls + 1
    /\ UNCHANGED <<fixed, lastOp, m_gpuDataTransferers,
                   m_intermediateCPUBuffers, workload>>

\* The background task: SetDevice, wait on the caller's event, then Aggregate.
AsyncTask(c) ==
    /\ calls[c].pc = "task"
    /\ \E g \in Garbage :
          LET f == calls[c]
              f1 == IF GetNonCPUDevice(Values(f)).Type # "CPU"
                    THEN [f EXCEPT !.sync = f.sync \o <<"wait:task">>] ELSE f
          IN calls' = [calls EXCEPT ![c] = AggregateBody(f1, g)]
    /\ UNCHANGED <<fixed, lastOp, m_gpuDataTransferers,
                   m_intermediateCPUBuffers, ncalls, workload>>

\* AggregateImpl called with an output list of its own.  The outputs are
\* fresh views like Aggregate's, except that the pair at one position may
\* differ in element count, data type or device.
Mismatches ==
    IF workload = "one call" THEN {"none", "TotalSize", "DataType", "Device"} ELSE {"none"}

OtherDataType(t) == IF t = "Float" THEN "Double" ELSE "Float"
OtherDevice(d) == IF d.Type = "CPU" THEN GPUDevice(0) ELSE CPUDevice

MismatchedView(v, how, g) ==
    CASE how = "TotalSize" -> FreshView(v.DataType, v.TotalSize - 1, v.Device, g)
      [] how = "DataType"  -> FreshView(OtherDataType(v.DataType), v.TotalSize, v.Device, g)
      [] how = "Device"    -> FreshView(v.DataType, v.TotalSize, OtherDevice(v.Device), g)
      [] OTHER             -> FreshView(v.DataType, v.TotalSize, v.Device, g)

WithOutputs(f, at, how, g) ==
    LET n == Len(f.inputValues)
        outs == [k \in 1..n |->
                   IF k = at THEN MismatchedView(f.heap[k], how, g)
                   ELSE FreshView(f.heap[k].DataType, f.heap[k].TotalSize,
                                  f.heap[k].Device, g)]
    IN [f EXCEPT !.heap = f.heap \o outs, !.heap0 = f.heap \o outs,
                 !.outputValues = [k \in 1..n |-> n + k]]

AggregateImpl(c) ==
    /\ CanStart(c)
    /\ \E req \in Requests \cap RequestsOver(DenseShapes), g \in Garbage, how \in Mismatches :
          \E at \in 1..Len(req) :
             calls' = [calls EXCEPT ![c] =
                         EnterImpl(WithOutputs(NewCall("AggregateImpl", req), at, how, g))]
    /\ ncalls' = ncalls + 1
    /\ UNCHANGED <<fixed, lastOp, m_gpuDataTransferers,
                   m_intermediateCPUBuffers, workload>>

\* -------------------------------------------------- unimplemented operations
NotImplementedError == "LogicError: Feature Not Implemented"

\* An operation that does nothing and returns.
SilentNoOp(op) == [op |-> op, outcome |-> "returned"]

\* NOT_IMPLEMENTED: the whole body of the three operations.
NotImplemented(op) == [op |-> op, outcome |-> NotImplementedError]

\* What a caller can pass as a set of values, and as a set of workers.
ValueSets ==
    SUBSET [Device : {CPUDevice, GPUDevice(0)}, DataType : {"Float"},
            StorageFormat : {"Dense"}]

ValueLists ==
    {<<>>, <<[Device |-> GPUDevice(0), DataType |-> "Float", StorageFormat |-> "Dense"]>>}

WorkerSets == SUBSET m_workers

SubGroup ==
    /\ CallerFree
    /\ \E subGroupWorkers \in WorkerSets : lastOp' = NotImplemented("SubGroup")
    /\ UNCHANGED <<fixed, m_gpuDataTransferers, m_intermediateCPUBuffers, calls,
                   ncalls, workload>>

Concatenate ==
    /\ CallerFree
    /\ \E values \in ValueSets, sendToWorkers \in WorkerSets :
          lastOp' = NotImplemented("Concatenate")
    /\ UNCHANGED <<fixed, m_gpuDataTransferers, m_intermediateCPUBuffers, calls,
                   ncalls, workload>>

QuantizedAggregate ==
    /\ CallerFree
    /\ \E inValues \in ValueLists, sendToWorkers \in WorkerSets :
          lastOp' = NotImplemented("QuantizedAggregate")
    /\ UNCHANGED <<fixed, m_gpuDataTransferers, m_intermediateCPUBuffers, calls,
                   ncalls, workload>>

\* --------------------------------------------------------------- Initialize
\* GPUDataTransferer(deviceId, true): both copy queues empty.
NewTransferer(deviceId) == [deviceId |-> deviceId, fetchQ |-> <<>>, assignQ |-> <<>>]

\* Buffer(): no memory, capacity 0.
EmptyBuffer == [totalSize |-> 0, data |-> <<>>, deviceId |-> CPUDEVICE]

\* AllocateIntermediateBuffer, when the allocator can satisfy the request.
AllocateIntermediateBuffer(deviceID, totalSize) ==
    [totalSize |-> totalSize, data |-> <<>>, deviceId |-> deviceID]

\* A pool that reallocates whenever the size differs, shrinking too.
NeedsAllocationOnChange(buffer, requiredSize) == buffer.totalSize # requiredSize

\* The reallocation test of Initialize.
NeedsAllocation(buffer, requiredSize) == buffer.totalSize < requiredSize

\* An Initialize that creates an engine for every GPU value it meets.
NeedsTransfererAlways(transferers, numGPUValues) == TRUE

\* The test of Initialize for a new transfer engine.
NeedsTransferer(transferers, numGPUValues) == Len(transferers) < numGPUValues

\* The loop of Initialize leaves for the stage-in loop after the last value.
NextInit(f) ==
    IF f.i = Len(f.inputValues) THEN [f EXCEPT !.pc = "stagein", !.i = 1]
    ELSE [f EXCEPT !.i = f.i + 1]

\* An Initialize that takes every view for dense.
IsSparseNever(view) == FALSE

\* The storage format test of Initialize.
IsSparse(view) == view.StorageFormat # "Dense"

\* An Initialize that never compares device ids.
DeviceConflictNever(lastGpuDevice, device) == FALSE

\* Two GPU values of one request on different devices.
DeviceConflict(lastGpuDevice, device) ==
    lastGpuDevice.Type # "CPU" /\ device.Id # lastGpuDevice.Id

\* An Initialize that gives every GPU value the first slot.
SlotIndexFirst(numGPUValues) == 0

\* index = numGPUValues++: the slot of the next GPU value.
SlotIndex(numGPUValues) == numGPUValues

\* One iteration of the loop of Initialize.
InitializeStep(c) ==
    LET f == calls[c]
        view == f.heap[f.inputValues[f.i]]
        device == view.Device
        index == SlotIndex(f.numGPUValues)
        numGPUValues == f.numGPUValues + 1
        slot == index + 1
        transferers == IF NeedsTransferer(m_gpuDataTransferers, numGPUValues)
                       THEN Append(m_gpuDataTransferers, NewTransferer(device.Id))
                       ELSE m_gpuDataTransferers
        buffers == IF Len(m_intermediateCPUBuffers) < numGPUValues
                   THEN Append(m_intermediateCPUBuffers, EmptyBuffer)
                   ELSE m_intermediateCPUBuffers
        f1 == [f EXCEPT !.numGPUValues = numGPUValues,
                        !.lastGpuDevice = IF f.lastGpuDevice.Type = "CPU"
                                          THEN device ELSE f.lastGpuDevice]
    IN
    /\ f.pc = "init"
    /\ IF IsSparse(view)
       THEN /\ calls' = [calls EXCEPT ![c] =
                           Fail(f, "RuntimeError: sparse not supported")]
            /\ UNCHANGED <<m_gpuDataTransferers, m_intermediateCPUBuffers>>
       ELSE IF device.Type # "GPU"
       THEN /\ calls' = [calls EXCEPT ![c] = NextInit(f)]
            /\ UNCHANGED <<m_gpuDataTransferers, m_intermediateCPUBuffers>>
       ELSE IF DeviceConflict(f.lastGpuDevice, device)
       THEN /\ calls' = [calls EXCEPT ![c] =
                           Fail(f, "LogicError: not the same GPU device id")]
            /\ UNCHANGED <<m_gpuDataTransferers, m_intermediateCPUBuffers>>
       ELSE IF view.DataType \notin {"Float", "Double"}
       THEN \* GetBufferSize has no size for the type
            /\ calls' = [calls EXCEPT ![c] = Fail(f1, "LogicError: Unknown DataType")]
            /\ m_gpuDataTransferers' = transferers
            /\ m_intermediateCPUBuffers' = buffers
       ELSE IF NeedsAllocation(buffers[slot], GetBufferSize(view))
       THEN \E ok \in BOOLEAN :
              /\ m_gpuDataTransferers' = transferers
              /\ IF ok
                 THEN /\ m_intermediateCPUBuffers' =
                            [buffers EXCEPT ![slot] =
                               AllocateIntermediateBuffer(device.Id, GetBufferSize(view))]
                      /\ calls' = [calls EXCEPT ![c] =
                                     NextInit([f1 EXCEPT !.indices[f.i] = index])]
                 ELSE /\ m_intermediateCPUBuffers' = buffers
                      /\ calls' = [calls EXCEPT ![c] =
                                     Fail(f1, "RuntimeError: allocation failed")]
       ELSE /\ m_gpuDataTransferers' = transferers
            /\ m_intermediateCPUBuffers' = buffers
            /\ calls' = [calls EXCEPT ![c] = NextInit([f1 EXCEPT !.indices[f.i] = index])]
    /\ UNCHANGED <<fixed, lastOp, ncalls, workload>>

\* ------------------------------------------------------------ AggregateImpl
Min(a, b) == IF a < b THEN a ELSE b

Take(seq, n) == SubSeq(seq, 1, Min(n, Len(seq)))

\* A copy of `size` bytes to or from the device memory of `view`.
CopyRequest(c, id, size, index) == [call |-> c, view |-> id, size |-> size, slot |-> index + 1]

\* The loop that starts the device-to-host copies: one iteration.
StageInStep(c) ==
    LET f == calls[c]
        id == f.inputValues[f.i]
        view == f.heap[id]
        gpuIndex == f.indices[f.i]
        n == Len(f.inputValues)
        f1 == IF f.i = n
              THEN [f EXCEPT !.pc = "reduce", !.i = 1,
                             !.allReduceRequests = [k \in 1..n |-> NullRequest]]
              ELSE [f EXCEPT !.i = f.i + 1]
    IN
    /\ f.pc = "stagein"
    /\ IF gpuIndex = CPUDEVICE
       THEN /\ calls' = [calls EXCEPT ![c] = f1]
            /\ UNCHANGED m_gpuDataTransferers
       ELSE IF GetDataBufferFails(view)
       THEN /\ calls' = [calls EXCEPT ![c] = Fail(f, "LogicError: Unknown DataType")]
            /\ UNCHANGED m_gpuDataTransferers
       ELSE /\ m_gpuDataTransferers' =
                 [m_gpuDataTransferers EXCEPT ![gpuIndex + 1].fetchQ =
                     Append(@, CopyRequest(c, id, GetBufferSize(view), gpuIndex))]
            /\ calls' = [calls EXCEPT ![c] = [f1 EXCEPT !.nCopies = f.nCopies + 1,
                                                        !.d2hIssued = f.d2hIssued \cup {f.i}]]
    /\ UNCHANGED <<fixed, lastOp, m_intermediateCPUBuffers, ncalls, workload>>

\* WaitForCopyGPUToCPUAsync returns once the engine's device-to-host queue is drained.
FetchDone(gpuIndex) == m_gpuDataTransferers[gpuIndex + 1].fetchQ = <<>>

\* WaitForCopyCPUToGPUAsync returns once the engine's host-to-device queue is drained.
AssignDone(gpuIndex) == m_gpuDataTransferers[gpuIndex + 1].assignQ = <<>>

\* A reduce loop that does not wait for the device-to-host copy.
WaitsForFetchNever(gpuIndex) == FALSE

\* The test of the reduce loop: the copy of a GPU value is waited for.
WaitsForFetch(gpuIndex) == gpuIndex # CPUDEVICE

\* The three assert()s on an input/output pair.
PairMatches(inputView, outputView) ==
    /\ inputView.TotalSize = outputView.TotalSize
    /\ inputView.DataType = outputView.DataType
    /\ inputView.Device = outputView.Device

\* A reduce loop that reads and writes the views' own memory, staged or not.
DataPointerUnstaged(gpuIndex, id) == <<"view", id>>

\* inputData and outputData of the reduce loop: the staging buffer of the
\* slot, or the view's own memory.
DataPointer(gpuIndex, id) ==
    IF gpuIndex # CPUDEVICE THEN <<"buffer", gpuIndex + 1>> ELSE <<"view", id>>

\* What the memory behind a pointer of call c holds.
Contents(f, ptr) ==
    IF ptr[1] = "buffer" THEN m_intermediateCPUBuffers[ptr[2]].data ELSE f.heap[ptr[2]].data

\* A reduction that covers one element too few.
NumElementsShort(view) == view.TotalSize - 1

\* numElements of the reduce loop: the element count of the input view.
NumElementsOf(view) == view.TotalSize

\* The loop that issues the reductions: one iteration.
ReduceStep(c) ==
    LET f == calls[c]
        gpuIndex == f.indices[f.i]
        inId == f.inputValues[f.i]
        outId == f.outputValues[f.i]
        inputView == f.heap[inId]
        outputView == f.heap[outId]
        numElements == NumElementsOf(inputView)
        inputData == DataPointer(gpuIndex, inId)
        outputData == DataPointer(gpuIndex, outId)
        request == [state |-> "active",
                    send |-> Take(Contents(f, inputData), numElements),
                    recv |-> outputData]
        f1 == [f EXCEPT !.allReduceRequests[f.i] = request,
                        !.nAllReduce = f.nAllReduce + 1]
    IN
    /\ f.pc = "reduce"
    /\ WaitsForFetch(gpuIndex) => FetchDone(gpuIndex)
    /\ calls' = [calls EXCEPT ![c] =
          IF assertsEnabled /\ ~PairMatches(inputView, outputView)
          THEN Fail(f, "assert: input/output pair")
          ELSE IF gpuIndex = CPUDEVICE
                  /\ (GetDataBufferFails(inputView) \/ GetDataBufferFails(outputView))
          THEN Fail(f, "LogicError: Unknown DataType")
          ELSE IF inputView.DataType \notin {"Float", "Double"}
          THEN Fail(f, "LogicError: Unknown DataType")
          ELSE IF f.i = Len(f.inputValues)
          THEN [f1 EXCEPT !.pc = "drain", !.numAllReduceRequestsCompleted = 0]
          ELSE [f1 EXCEPT !.i = f.i + 1]]
    /\ UNCHANGED <<fixed, lastOp, m_gpuDataTransferers,
                   m_intermediateCPUBuffers, ncalls, workload>>

\* The sum the transport delivers for the reduction issued at position i: what
\* this worker sent plus what every other worker holds at that position.
AllReduceSum(send, i) ==
    [e \in 1..Len(send) |->
        send[e] + SumWorkers((0..(numNodes - 1)) \ {rank}, numNodes - 1, i, e)]

\* The transport completes an outstanding reduction and writes the result.
AllReduceComplete(c, i) ==
    LET f == calls[c]
        r == f.allReduceRequests[i]
        result == AllReduceSum(r.send, i)
    IN
    /\ f.pc \notin {"idle", "entry", "task"}
    /\ i \in 1..Len(f.allReduceRequests)
    /\ r.state = "active"
    /\ IF r.recv[1] = "buffer"
       THEN /\ m_intermediateCPUBuffers' =
                  [m_intermediateCPUBuffers EXCEPT ![r.recv[2]].data = result]
            /\ calls' = [calls EXCEPT ![c].allReduceRequests[i].state = "complete"]
       ELSE /\ calls' = [calls EXCEPT ![c].allReduceRequests[i].state = "complete",
                                      ![c].heap[r.recv[2]].data = result]
            /\ UNCHANGED m_intermediateCPUBuffers
    /\ UNCHANGED <<fixed, lastOp, m_gpuDataTransferers, ncalls, workload>>

\* A drain loop that stops after its first iteration.
DrainStopsAtOnce(numAllReduceRequestsCompleted, numValues) == FALSE

\* The condition of the drain loop.
DrainContinues(numAllReduceRequestsCompleted, numValues) ==
    numAllReduceRequestsCompleted < numValues

\* A drain loop that copies nothing back.
CopiesBackNever(gpuIndex) == FALSE

\* The test of the drain loop: a GPU value is copied back to its device.
CopiesBack(gpuIndex) == gpuIndex # CPUDEVICE

\* One iteration of the drain loop: WaitAny, then the copy back of a GPU value.
DrainStep(c) ==
    LET f == calls[c]
        n == Len(f.inputValues)
        pending == {k \in 1..n : f.allReduceRequests[k].state \in {"active", "complete"}}
    IN
    /\ f.pc = "drain"
    /\ IF pending = {}
       THEN \* WaitAny reports MPI_UNDEFINED: break
            /\ calls' = [calls EXCEPT ![c] =
                           [f EXCEPT !.pc = "barrier", !.i = 1, !.nWaitAny = f.nWaitAny + 1]]
            /\ UNCHANGED m_gpuDataTransferers
       ELSE \E idx \in pending :
            LET gpuIndex == f.indices[idx]
                id == f.outputValues[idx]
                view == f.heap[id]
                done == f.numAllReduceRequestsCompleted + 1
                f1 == [f EXCEPT !.allReduceRequests[idx].state = "inactive",
                                !.numAllReduceRequestsCompleted = done,
                                !.nWaitAny = f.nWaitAny + 1,
                                !.pc = IF DrainContinues(done, n) THEN "drain" ELSE "barrier",
                                !.i = 1]
            IN
            /\ f.allReduceRequests[idx].state = "complete"
            /\ IF ~CopiesBack(gpuIndex)
               THEN /\ calls' = [calls EXCEPT ![c] = f1]
                    /\ UNCHANGED m_gpuDataTransferers
               ELSE IF GetDataBufferFails(view)
               THEN /\ calls' = [calls EXCEPT ![c] =
                          Fail([f1 EXCEPT !.pc = "drain"], "LogicError: Unknown DataType")]
                    /\ UNCHANGED m_gpuDataTransferers
               ELSE /\ m_gpuDataTransferers' =
                         [m_gpuDataTransferers EXCEPT ![gpuIndex + 1].assignQ =
                             Append(@, CopyRequest(c, id, GetBufferSize(view), gpuIndex))]
                    /\ calls' = [calls EXCEPT ![c] =
                                   [f1 EXCEPT !.nCopies = f.nCopies + 1,
                                              !.h2dIssued = f.h2dIssued \cup {idx}]]
    /\ UNCHANGED <<fixed, lastOp, m_intermediateCPUBuffers, ncalls, workload>>

\* A final loop that waits for no value.
BarrierWaitsNever(gpuIndex) == FALSE

\* The test of the final loop: only GPU values are waited for.
BarrierWaits(gpuIndex) == gpuIndex # CPUDEVICE

\* The final loop: wait for the copy back of every GPU value, then return.
BarrierStep(c) ==
    LET f == calls[c]
        gpuIndex == f.indices[f.i]
    IN
    /\ f.pc = "barrier"
    /\ BarrierWaits(gpuIndex) => AssignDone(gpuIndex)
    /\ calls' = [calls EXCEPT ![c] =
                   IF f.i = Len(f.inputValues) THEN [f EXCEPT !.pc = "returned"]
                   ELSE [f EXCEPT !.i = f.i + 1]]
    /\ UNCHANGED <<fixed, lastOp, m_gpuDataTransferers,
                   m_intermediateCPUBuffers, ncalls, workload>>

\* ---------------------------------------------------------- transfer engine
\* The engine at slot s finishes the oldest device-to-host copy of its queue.
CopyGPUToCPUComplete(s) ==
    /\ s \in 1..Len(m_gpuDataTransferers)
    /\ m_gpuDataTransferers[s].fetchQ # <<>>
    /\ LET r == Head(m_gpuDataTransferers[s].fetchQ)
           view == calls[r.call].heap[r.view]
       IN m_intermediateCPUBuffers' =
             [m_intermediateCPUBuffers EXCEPT ![r.slot].data =
                 Take(view.data, r.size \div DataTypeSize(view.DataType))]
    /\ m_gpuDataTransferers' = [m_gpuDataTransferers EXCEPT ![s].fetchQ = Tail(@)]
    /\ UNCHANGED <<fixed, lastOp, calls, ncalls, workload>>

\* The engine at slot s finishes the oldest host-to-device copy of its queue.
CopyCPUToGPUComplete(s) ==
    /\ s \in 1..Len(m_gpuDataTransferers)
    /\ m_gpuDataTransferers[s].assignQ # <<>>
    /\ LET r == Head(m_gpuDataTransferers[s].assignQ)
           view == calls[r.call].heap[r.view]
           pos == CHOOSE k \in 1..Len(calls[r.call].outputValues) :
                     calls[r.call].outputValues[k] = r.view
       IN calls' = [calls EXCEPT
                      ![r.call].heap[r.view].data =
                          Take(m_intermediateCPUBuffers[r.slot].data,
                               r.size \div DataTypeSize(view.DataType)),
                      ![r.call].h2dDone = @ \cup {pos}]
    /\ m_gpuDataTransferers' = [m_gpuDataTransferers EXCEPT ![s].assignQ = Tail(@)]
    /\ UNCHANGED <<fixed, lastOp, m_intermediateCPUBuffers, ncalls, workload>>

\* ------------------------------------------------------------ specification
\* The state after MPICommunicator(): no engine, no buffer, no call made.
Construct ==
    /\ numNodes \in 1..MaxWorkers
    /\ rank \in 0..(numNodes - 1)
    /\ assertsEnabled \in BOOLEAN
    /\ m_currentWorker = [m_globalRank |-> rank, m_hostId |-> CurrentNodeName(rank)]
    /\ m_workers = InsertWorkers(0, numNodes, m_currentWorker)
    /\ m_gpuDataTransferers = <<>>
    /\ m_intermediateCPUBuffers = <<>>
    /\ calls = [c \in CallIds |-> IdleCall]
    /\ ncalls = 0
    /\ lastOp = NoOp

Init == Construct /\ workload = "one call"

InitCalls == Construct /\ workload = "calls"

Next ==
    \/ \E c \in CallIds : Aggregate(c)
    \/ \E c \in CallIds : AggregateInPlace(c)
    \/ \E c \in CallIds : AggregateAsync(c)
    \/ \E c \in CallIds : AsyncTask(c)
    \/ \E c \in CallIds : AggregateImpl(c)
    \/ \E c \in CallIds : InitializeStep(c)
    \/ \E c \in CallIds : StageInStep(c)
    \/ \E c \in CallIds : ReduceStep(c)
    \/ \E c \in CallIds, i \in 1..MaxValues : AllReduceComplete(c, i)
    \/ \E c \in CallIds : DrainStep(c)
    \/ \E c \in CallIds : BarrierStep(c)
    \/ \E s \in 1..MaxValues : CopyGPUToCPUComplete(s)
    \/ \E s \in 1..MaxValues : CopyCPUToGPUComplete(s)
    \/ SubGroup
    \/ Concatenate
    \/ QuantizedAggregate

Spec == Init /\ [][Next]_vars

\* What runs without the caller: the task of AggregateAsync, the thread
\* inside AggregateImpl, the transfer engines and the transport.
Progress ==
    \/ \E c \in CallIds : AsyncTask(c)
    \/ \E c \in CallIds : InitializeStep(c)
    \/ \E c \in CallIds : StageInStep(c)
    \/ \E c \in CallIds : ReduceStep(c)
    \/ \E c \in CallIds, i \in 1..MaxValues : AllReduceComplete(c, i)
    \/ \E c \in CallIds : DrainStep(c)
    \/ \E c \in CallIds : BarrierStep(c)
    \/ \E s \in 1..MaxValues : CopyGPUToCPUComplete(s)
    \/ \E s \in 1..MaxValues : CopyCPUToGPUComplete(s)

\* A thread that can run does run, and every copy and every reduction that
\* has been issued completes.
InitLive == Construct /\ workload = "valid call"

SpecLive == InitLive /\ [][Next]_vars /\ WF_vars(Progress)

SpecCalls == InitCalls /\ [][Next]_vars

InitConcurrent == Construct /\ workload = "concurrent"

SpecConcurrent == InitConcurrent /\ [][Next]_vars

\* ------------------------------------------------------------------- claims
Returned(c) == calls[c].pc = "returned"
Failed(c) == calls[c].pc = "failed"

\* The inputs and outputs of call c as the caller sees them now, and as they
\* were when the call was entered.
InputNow(c, k) == calls[c].heap[calls[c].inputValues[k]]
OutputNow(c, k) == calls[c].heap[calls[c].outputValues[k]]
InputAtEntry(c, k) == calls[c].heap0[calls[c].inputValues[k]]
NumValues(c) == Len(calls[c].inputValues)

\* The element-wise sum, over every worker in use, of the tensor at position k.
SumOverWorkers(k, n) ==
    [e \in 1..n |-> SumWorkers(0..(numNodes - 1), numNodes - 1, k, e)]

AllCPUDense(c) ==
    \A k \in 1..NumValues(c) :
        InputAtEntry(c, k).Device.Type = "CPU" /\ InputAtEntry(c, k).StorageFormat = "Dense"

\* C1: when Aggregate or AggregateInPlace returns on N > 1 workers for a
\* request of CPU-resident dense tensors, the output at every position holds
\* the element-wise sum over all workers of their input at that position; the
\* sum does not depend on the rank, so every worker holds the same values.
C1_CpuOutputsAreSums ==
    \A c \in CallIds :
        (Returned(c) /\ calls[c].kind \in {"Aggregate", "AggregateInPlace"}
            /\ numNodes > 1 /\ AllCPUDense(c))
        => \A k \in 1..NumValues(c) :
              OutputNow(c, k).data = SumOverWorkers(k, InputAtEntry(c, k).TotalSize)

C1_Witness ==
    \E c \in CallIds :
        /\ Returned(c) /\ calls[c].kind = "Aggregate" /\ numNodes > 1
        /\ AllCPUDense(c) /\ NumValues(c) = MaxValues
        /\ OutputNow(c, 2).data = SumOverWorkers(2, NumElements)

\* C2: with one worker in use, Aggregate returns outputs equal to the inputs
\* and makes no transport call (no AllReduceAsync, no WaitAny).
C2_SingleWorkerIdentity ==
    \A c \in CallIds :
        (Returned(c) /\ calls[c].kind = "Aggregate" /\ numNodes = 1)
        => /\ calls[c].nAllReduce = 0 /\ calls[c].nWaitAny = 0
           /\ \A k \in 1..NumValues(c) : OutputNow(c, k).data = InputAtEntry(c, k).data

\* The transport half of C2 alone.
C2_SingleWorkerNoTransport ==
    \A c \in CallIds :
        numNodes = 1 => calls[c].nAllReduce = 0 /\ calls[c].nWaitAny = 0

\* C3: Aggregate never writes an input (CPU or GPU) and returns views that
\* are not the inputs; AggregateInPlace reduces into the inputs themselves.
\* Where a reduction takes place (N > 1), the reduced values are in the
\* outputs of Aggregate and in the inputs of AggregateInPlace on return.
C3_InputsAndOutputs ==
    \A c \in CallIds :
        /\ calls[c].kind \in {"Aggregate", "AggregateAsync"} =>
              /\ \A k \in 1..NumValues(c) : InputNow(c, k) = InputAtEntry(c, k)
              /\ calls[c].pc \notin {"entry", "task"} =>
                    \A k, j \in 1..NumValues(c) :
                        calls[c].outputValues[k] # calls[c].inputValues[j]
              /\ (Returned(c) /\ numNodes > 1) =>
                    \A k \in 1..NumValues(c) :
                        OutputNow(c, k).data = SumOverWorkers(k, InputAtEntry(c, k).TotalSize)
        /\ calls[c].kind = "AggregateInPlace" =>
              /\ calls[c].outputValues = calls[c].inputValues
              /\ (Returned(c) /\ numNodes > 1) =>
                    \A k \in 1..NumValues(c) :
                        InputNow(c, k).data = SumOverWorkers(k, InputAtEntry(c, k).TotalSize)

C3_Witness ==
    \E c \in CallIds :
        /\ Returned(c) /\ calls[c].kind = "Aggregate" /\ numNodes > 1
        /\ NumValues(c) = 2
        /\ InputAtEntry(c, 1).Device.Type = "GPU" /\ InputAtEntry(c, 2).Device.Type = "CPU"
        /\ InputNow(c, 1) = InputAtEntry(c, 1)
        /\ OutputNow(c, 1).data # InputNow(c, 1).data

C3_WitnessInPlace ==
    \E c \in CallIds :
        /\ Returned(c) /\ calls[c].kind = "AggregateInPlace" /\ numNodes > 1
        /\ NumValues(c) = 2 /\ InputAtEntry(c, 1).Device.Type = "GPU"
        /\ InputNow(c, 1).data # InputAtEntry(c, 1).data

\* The request of call c satisfies the pair invariant.
PairsMatch(c) ==
    \A k \in 1..NumValues(c) :
        PairMatches(calls[c].heap0[calls[c].inputValues[k]],
                    calls[c].heap0[calls[c].outputValues[k]])

\* Copies of call c still queued on some transfer engine.
QueuedCopies(c) ==
    {s \in 1..Len(m_gpuDataTransferers) :
        \E q \in {m_gpuDataTransferers[s].fetchQ, m_gpuDataTransferers[s].assignQ} :
            \E n \in 1..Len(q) : q[n].call = c}

OutstandingRequests(c) ==
    {k \in 1..Len(calls[c].allReduceRequests) :
        calls[c].allReduceRequests[k].state \in {"active", "complete"}}

\* C4: when a call on N > 1 workers (whose pairs match) returns, the copy back
\* of every GPU-resident output has been issued and has completed, no copy and
\* no reduction of the call is outstanding, and every output, CPU or GPU,
\* holds the reduced values of its own position.
C4_ReturnMeansAllCopiedBack ==
    \A c \in CallIds :
        (Returned(c) /\ numNodes > 1 /\ PairsMatch(c)) =>
            /\ \A k \in 1..NumValues(c) :
                  /\ OutputNow(c, k).Device.Type = "GPU" =>
                        k \in calls[c].h2dIssued /\ k \in calls[c].h2dDone
                  /\ OutputNow(c, k).data = SumOverWorkers(k, InputAtEntry(c, k).TotalSize)
            /\ QueuedCopies(c) = {}
            /\ OutstandingRequests(c) = {}

C4_Witness ==
    \E c \in CallIds :
        /\ Returned(c) /\ numNodes > 1 /\ NumValues(c) = 2 /\ PairsMatch(c)
        /\ {InputAtEntry(c, 1).Device.Type, InputAtEntry(c, 2).Device.Type} = {"CPU", "GPU"}
        /\ calls[c].h2dDone # {}

\* Some pair of the request of call c differs in element count, type or device.
HasMismatch(c) == calls[c].pc \notin {"idle", "entry", "task"} /\ ~PairsMatch(c)

\* C5 (on N > 1 workers, in a build that keeps assert): a call whose request
\* has a mismatched pair fails before any transport call is issued, so it
\* never issues AllReduceAsync or WaitAny and never returns.
C5_MismatchFailsBeforeTransport ==
    \A c \in CallIds :
        (HasMismatch(c) /\ numNodes > 1 /\ assertsEnabled)
        => /\ calls[c].nAllReduce = 0 /\ calls[c].nWaitAny = 0
           /\ ~Returned(c)

HasSparse(c) ==
    \E k \in 1..NumValues(c) : InputAtEntry(c, k).StorageFormat # "Dense"

NoTransport(c) == calls[c].nAllReduce = 0 /\ calls[c].nWaitAny = 0

\* C6, as claimed: a call whose request has a sparse input, whatever the
\* number of workers, fails and issues no transport call.
C6_SparseAlwaysFails ==
    \A c \in CallIds : HasSparse(c) => ~Returned(c) /\ NoTransport(c)

\* C6, amended: on N > 1 workers a call (Aggregate, AggregateInPlace or
\* AggregateAsync) whose request has a sparse input never gets past
\* Initialize: it issues no transport call and no copy, never returns, and
\* ends failed with an error.
C6_SparseFailsOnManyWorkers ==
    \A c \in CallIds :
        (HasSparse(c) /\ numNodes > 1) =>
            /\ calls[c].pc \in {"task", "init", "failed"}
            /\ NoTransport(c) /\ calls[c].nCopies = 0
            /\ Failed(c) => calls[c].err # "none"

C6_Witness ==
    \E c \in CallIds :
        /\ Failed(c) /\ numNodes > 1 /\ calls[c].kind = "AggregateAsync"
        /\ calls[c].err = "RuntimeError: sparse not supported"
        /\ calls[c].i = 2 /\ InputAtEntry(c, 1).Device.Type = "GPU"

OutputsUntouched(c) ==
    \A k \in 1..NumValues(c) :
        OutputNow(c, k).data = calls[c].heap0[calls[c].outputValues[k]].data

\* C7: when a call fails, whatever the error, no reduction has been issued
\* for any tensor of the request and no output holds reduced data.
C7_FailureLeavesNoPartialResult ==
    \A c \in CallIds :
        Failed(c) => calls[c].nAllReduce = 0 /\ OutputsUntouched(c)

\* The errors of Initialize leave no partial result.
C7_InitializeErrorsLeaveNothing ==
    \A c \in CallIds :
        (Failed(c) /\ calls[c].err \in {"RuntimeError: sparse not supported",
                                        "LogicError: not the same GPU device id",
                                        "RuntimeError: allocation failed"})
        => calls[c].nAllReduce = 0 /\ OutputsUntouched(c)

GpuPositions(c) == {k \in 1..NumValues(c) : InputAtEntry(c, k).Device.Type = "GPU"}

MixedGpuIds(c) ==
    \E k, j \in GpuPositions(c) : InputAtEntry(c, k).Device.Id # InputAtEntry(c, j).Device.Id

Least(S) == CHOOSE k \in S : \A j \in S : k <= j

\* The first GPU input whose device id differs from the first GPU input's.
FirstConflict(c) ==
    Least({k \in GpuPositions(c) :
             InputAtEntry(c, k).Device.Id # InputAtEntry(c, Least(GpuPositions(c))).Device.Id})

DeviceError == "LogicError: not the same GPU device id"

NeverPastInitialize(c) ==
    /\ calls[c].pc \in {"task", "init", "failed"}
    /\ calls[c].nCopies = 0 /\ NoTransport(c)

\* C8, as claimed: on N > 1 workers, two GPU inputs with different device ids
\* make the call fail with the device-id logic error before any copy or
\* transport call; with one device id the device check does not fail.
C8_MixedDevicesLogicError ==
    \A c \in CallIds :
        numNodes > 1 =>
            /\ MixedGpuIds(c) => /\ NeverPastInitialize(c)
                                 /\ Failed(c) => calls[c].err = DeviceError
            /\ ~MixedGpuIds(c) => calls[c].err # DeviceError

\* C8, amended: such a call fails before any copy or transport call, with the
\* device-id logic error raised at the first conflicting GPU input, unless
\* the sparse-input error, the unknown-data-type error or a staging
\* allocation failure is raised first, at that input or an earlier one; with
\* one device id the device check does not fail.
C8_MixedDevicesFail ==
    \A c \in CallIds :
        numNodes > 1 =>
            /\ MixedGpuIds(c) =>
                  /\ NeverPastInitialize(c)
                  /\ calls[c].pc = "init" => calls[c].i <= FirstConflict(c)
                  /\ Failed(c) =>
                        \/ calls[c].err = DeviceError /\ calls[c].i = FirstConflict(c)
                        \/ /\ calls[c].err \in {"RuntimeError: sparse not supported",
                                                "LogicError: Unknown DataType",
                                                "RuntimeError: allocation failed"}
                           /\ calls[c].i <= FirstConflict(c)
            /\ ~MixedGpuIds(c) => calls[c].err # DeviceError

C8_Witness ==
    \E c \in CallIds :
        /\ Failed(c) /\ numNodes > 1 /\ calls[c].err = DeviceError
        /\ MixedGpuIds(c) /\ calls[c].i = 2
        /\ Len(m_gpuDataTransferers) = 1 /\ calls[c].nCopies = 0

\* The slot and the byte size Initialize is about to handle in call c.
InitializingSlot(c, s) ==
    /\ calls[c].pc = "init"
    /\ InputNow(c, calls[c].i).Device.Type = "GPU"
    /\ s = calls[c].numGPUValues + 1

RequiredSize(c) ==
    InputNow(c, calls[c].i).TotalSize
        * (IF InputNow(c, calls[c].i).DataType = "Float" THEN 4 ELSE 8)

\* The buffer at slot s is not the one it was: another capacity, another
\* allocation device, or memory that holds nothing yet.
Reallocated(s) ==
    \/ m_intermediateCPUBuffers'[s].totalSize # m_intermediateCPUBuffers[s].totalSize
    \/ m_intermediateCPUBuffers'[s].deviceId # m_intermediateCPUBuffers[s].deviceId
    \/ m_intermediateCPUBuffers'[s].data = <<>> /\ m_intermediateCPUBuffers[s].data # <<>>

C9_Step ==
    /\ Len(m_intermediateCPUBuffers') >= Len(m_intermediateCPUBuffers)
    /\ \A s \in 1..Len(m_intermediateCPUBuffers) :
          /\ m_intermediateCPUBuffers'[s].totalSize >= m_intermediateCPUBuffers[s].totalSize
          /\ Reallocated(s) =>
                \E c \in CallIds :
                    /\ InitializingSlot(c, s)
                    /\ m_intermediateCPUBuffers[s].totalSize < RequiredSize(c)
                    /\ m_intermediateCPUBuffers'[s].totalSize = RequiredSize(c)
    /\ \A s \in (Len(m_intermediateCPUBuffers) + 1)..Len(m_intermediateCPUBuffers') :
          /\ s = Len(m_intermediateCPUBuffers) + 1
          /\ \E c \in CallIds :
                /\ InitializingSlot(c, s)
                /\ m_intermediateCPUBuffers'[s].totalSize \in {0, RequiredSize(c)}

\* C9: over any sequence of calls, no step removes a staging buffer slot or
\* lowers the capacity of one; a slot's buffer is replaced only by Initialize,
\* only when its capacity is strictly below the byte size required, and then
\* by one of exactly that size; otherwise the buffer stays the one it was.
C9_BuffersOnlyGrow == [][C9_Step]_vars

\* A second call reuses the 16-byte buffer of slot 0 for an 8-byte tensor.
C9_Witness ==
    \E c \in CallIds :
        /\ Returned(c) /\ ncalls = 2 /\ numNodes > 1
        /\ NumValues(c) >= 1 /\ InputAtEntry(c, 1).Device.Type = "GPU"
        /\ InputAtEntry(c, 1).DataType = "Float"
        /\ m_intermediateCPUBuffers[1].totalSize = 4 * NumElements * 2

\* The position of view `id` among the inputs or outputs of call c.
PositionOf(c, id) ==
    CHOOSE k \in 1..NumValues(c) :
        calls[c].inputValues[k] = id \/ calls[c].outputValues[k] = id

QueuesOf(s) == {m_gpuDataTransferers[s].fetchQ, m_gpuDataTransferers[s].assignQ}

Max(a, b) == IF a > b THEN a ELSE b

RECURSIVE MostGpuValues(_)
MostGpuValues(cs) ==
    IF cs = {} THEN 0
    ELSE LET c == CHOOSE x \in cs : TRUE
         IN Max(calls[c].numGPUValues, MostGpuValues(cs \ {c}))

C10_Step ==
    /\ Len(m_gpuDataTransferers') =
          Max(Len(m_gpuDataTransferers), MostGpuValues(CallIds)')
    /\ \A s \in 1..Len(m_gpuDataTransferers) :
          m_gpuDataTransferers'[s].deviceId = m_gpuDataTransferers[s].deviceId
    /\ \A s \in (Len(m_gpuDataTransferers) + 1)..Len(m_gpuDataTransferers') :
          \E c \in CallIds :
              /\ InitializingSlot(c, s)
              /\ m_gpuDataTransferers'[s] = NewTransferer(InputNow(c, calls[c].i).Device.Id)
    /\ \A s \in 1..Len(m_gpuDataTransferers') :
          \A q \in QueuesOf(s)' : \A n \in 1..Len(q) :
              /\ q[n].slot = s
              /\ (calls[q[n].call].indices[PositionOf(q[n].call, q[n].view)])' = s - 1

C13_Step ==
    lastOp' # lastOp =>
        /\ lastOp = NoOp
        /\ lastOp'.op \in {"SubGroup", "Concatenate", "QuantizedAggregate"}
        /\ lastOp'.outcome = NotImplementedError
        /\ UNCHANGED <<m_gpuDataTransferers, m_intermediateCPUBuffers, m_workers,
                       m_currentWorker, calls, ncalls>>

\* C13: SubGroup, Concatenate and QuantizedAggregate, whatever their arguments
\* and whatever the state of the communicator they are called in, end with the
\* fatal "not implemented" error and leave the engines, the staging buffers,
\* the membership set and every call as they were.
C13_UnimplementedAlwaysFail == [][C13_Step]_vars

\* QuantizedAggregate fails beside a call that runs in the background and
\* has its staging buffer.
C13_Witness ==
    /\ lastOp = NotImplemented("QuantizedAggregate")
    /\ \E d \in CallIds : InBackground(d) /\ calls[d].pc = "reduce"
    /\ Len(m_intermediateCPUBuffers) >= 1

C13_WitnessSubGroup == lastOp = NotImplemented("SubGroup") /\ ncalls = 0

C13_WitnessConcatenate ==
    lastOp = NotImplemented("Concatenate") /\ \E d \in CallIds : Returned(d)

WorkersOfRank(r) == {w \in Workers : w.m_globalRank = r}

C14_Membership ==
    /\ Cardinality(Workers) = numNodes
    /\ \A r \in 0..(numNodes - 1) : Cardinality(WorkersOfRank(r)) = 1
    /\ \A w \in Workers : w.m_globalRank \in 0..(numNodes - 1)
    /\ CurrentWorker \in Workers
    /\ CurrentWorker.m_globalRank = rank
    /\ CurrentWorker.m_hostId = CurrentNodeName(rank) /\ CurrentWorker.m_hostId # ""
    /\ \A w \in Workers : w # CurrentWorker => w.m_hostId = ""

\* C14: with N workers in use, Workers() always holds exactly N descriptors,
\* one for each rank 0..N-1; the one of the current rank is CurrentWorker(),
\* with the host name of this worker, and every other one has an empty host
\* identity; no step of any operation changes Workers() or CurrentWorker().
C14_WorkersFixed ==
    /\ []C14_Membership
    /\ [][Workers' = Workers /\ CurrentWorker' = CurrentWorker]_vars

\* The membership of the worker of rank 1 of 2, after a call has run.
C14_Witness ==
    /\ numNodes = 2 /\ rank = 1
    /\ Workers = {[m_globalRank |-> 0, m_hostId |-> ""], CurrentWorker}
    /\ CurrentWorker = [m_globalRank |-> 1, m_hostId |-> "node1"]
    /\ \E c \in CallIds : Returned(c) /\ calls[c].nAllReduce > 0

\* What the CPU-only path leaves in the output at position k for the values
\* call c was given: with one worker, or for an empty request, the output as
\* it was at entry; otherwise what the transport makes of a reduction that
\* sends the input's own memory.
CpuPathOutput(c, k) ==
    IF numNodes = 1 \/ NumValues(c) = 0
    THEN calls[c].heap0[calls[c].outputValues[k]].data
    ELSE AllReduceSum(Take(InputAtEntry(c, k).data, NumElementsOf(InputAtEntry(c, k))), k)

\* C11: when Aggregate or AggregateInPlace returns, the output of every
\* GPU-resident input, Float or Double, holds what the CPU-only path produces
\* for the same values on the same workers (the copy engine being a plain
\* memory copy).
C11_GpuEqualsCpuPath ==
    \A c \in CallIds :
        (Returned(c) /\ calls[c].kind \in {"Aggregate", "AggregateInPlace"}) =>
            \A k \in GpuPositions(c) : OutputNow(c, k).data = CpuPathOutput(c, k)

\* A Float and a Double tensor of one GPU, reduced through staging buffers.
C11_Witness ==
    \E c \in CallIds :
        /\ Returned(c) /\ calls[c].kind = "AggregateInPlace" /\ numNodes > 1
        /\ NumValues(c) = 2 /\ GpuPositions(c) = {1, 2}
        /\ InputAtEntry(c, 1).DataType = "Float" /\ InputAtEntry(c, 2).DataType = "Double"
        /\ calls[c].h2dDone = {1, 2}
        /\ OutputNow(c, 2).data = SumOverWorkers(2, NumElements)

\* Device-to-host copies of call c that an engine still holds.
QueuedFetches(c) ==
    {s \in 1..Len(m_gpuDataTransferers) :
        \E n \in 1..Len(m_gpuDataTransferers[s].fetchQ) :
            m_gpuDataTransferers[s].fetchQ[n].call = c}

\* C12: in an AggregateAsync call with a GPU-resident input, the first
\* synchronization event is the one the calling thread recorded, and it is
\* there while the task has not yet run; the task creates none before it has
\* waited on that one; and a device-to-host copy of the call is issued only
\* after the task has waited on it.
C12_CallerRecordsBeforeTask ==
    \A c \in CallIds :
        (calls[c].kind = "AggregateAsync" /\ GpuPositions(c) # {}) =>
            LET sync == calls[c].sync IN
            /\ Len(sync) >= 1 /\ sync[1] = "record:caller"
            /\ calls[c].pc = "task" => sync = <<"record:caller">>
            /\ Len(sync) >= 2 => sync[2] = "wait:task"
            /\ (calls[c].nCopies > 0 \/ QueuedFetches(c) # {}) =>
                  Len(sync) >= 2 /\ sync[2] = "wait:task"

\* The task has waited on the caller's event and its copy is queued.
C12_Witness ==
    \E c \in CallIds :
        /\ calls[c].kind = "AggregateAsync" /\ GpuPositions(c) # {}
        /\ Len(calls[c].sync) >= 2
        /\ calls[c].sync[1] = "record:caller" /\ calls[c].sync[2] = "wait:task"
        /\ QueuedFetches(c) # {} /\ calls[c].pc = "reduce"

\* The event is recorded and the task has not yet been scheduled.
C12_WitnessBeforeTask ==
    \E c \in CallIds :
        /\ calls[c].kind = "AggregateAsync" /\ GpuPositions(c) # {}
        /\ calls[c].pc = "task" /\ calls[c].sync = <<"record:caller">>

\* The positions of call c for which AllReduceAsync has been called.
IssuedRequests(c) ==
    {k \in 1..Len(calls[c].allReduceRequests) : calls[c].allReduceRequests[k].state # "null"}

\* The device-to-host copy of the input at position k of call c is still queued.
FetchQueued(c, k) ==
    \E s \in 1..Len(m_gpuDataTransferers) :
        \E n \in 1..Len(m_gpuDataTransferers[s].fetchQ) :
            /\ m_gpuDataTransferers[s].fetchQ[n].call = c
            /\ m_gpuDataTransferers[s].fetchQ[n].view = calls[c].inputValues[k]

PastReduceLoop(c) ==
    calls[c].pc \in {"drain", "barrier"} \/ (Returned(c) /\ numNodes > 1 /\ NumValues(c) > 0)

\* C15: AllReduceAsync has been called once for each of the first nAllReduce
\* positions and for no other (so in input order, one request per tensor, and
\* for every tensor once the reduce loop is over); and when the request of a
\* GPU-resident tensor has been issued, that tensor's device-to-host copy is
\* no longer queued and the request sends the tensor's full data.
C15_OneRequestPerTensorInOrder ==
    \A c \in CallIds :
        /\ IssuedRequests(c) = 1..calls[c].nAllReduce
        /\ calls[c].pc = "reduce" => calls[c].nAllReduce = calls[c].i - 1
        /\ PastReduceLoop(c) => calls[c].nAllReduce = NumValues(c)
        /\ \A k \in IssuedRequests(c) :
              calls[c].indices[k] # CPUDEVICE =>
                 /\ ~FetchQueued(c, k)
                 /\ calls[c].allReduceRequests[k].send = InputAtEntry(c, k).data
                 /\ Len(calls[c].allReduceRequests[k].send) = InputAtEntry(c, k).TotalSize

\* Both requests of a call on a CPU and a GPU tensor are issued.
C15_Witness ==
    \E c \in CallIds :
        /\ calls[c].pc = "drain" /\ NumValues(c) = 2 /\ calls[c].nAllReduce = 2
        /\ calls[c].indices = <<CPUDEVICE, 0>>
        /\ calls[c].allReduceRequests[2].send = InputAtEntry(c, 2).data
        /\ calls[c].allReduceRequests[2].recv = <<"buffer", 1>>

AssignQueue(transferers, s) ==
    IF s <= Len(transferers) THEN transferers[s].assignQ ELSE <<>>

\* What holds of a step that issues a host-to-device copy on the engine of
\* slot s: it is the drain loop's iteration in which WaitAny reports the
\* reduction of a GPU-resident tensor of that slot, and the first copy back
\* of that tensor.
IssuesCopyBack(s) ==
    LET old == AssignQueue(m_gpuDataTransferers, s)
        new == AssignQueue(m_gpuDataTransferers', s)
        r == new[Len(new)]
    IN Len(new) > Len(old) =>
          /\ new = Append(old, r)
          /\ r.slot = s
          /\ \E idx \in 1..NumValues(r.call) :
                /\ r.view = calls[r.call].outputValues[idx]
                /\ calls[r.call].indices[idx] = s - 1
                /\ InputAtEntry(r.call, idx).Device.Type = "GPU"
                /\ calls[r.call].pc = "drain"
                /\ calls[r.call].allReduceRequests[idx].state = "complete"
                /\ calls'[r.call].allReduceRequests[idx].state = "inactive"
                /\ calls'[r.call].nWaitAny = calls[r.call].nWaitAny + 1
                /\ idx \notin calls[r.call].h2dIssued
                /\ calls'[r.call].h2dIssued = calls[r.call].h2dIssued \cup {idx}

C16_Step ==
    /\ \A s \in 1..Len(m_gpuDataTransferers') : IssuesCopyBack(s)
    /\ \A c \in CallIds :
          (calls[c].pc = "drain" /\ calls'[c].h2dIssued # calls[c].h2dIssued) =>
              \E s \in 1..Len(m_gpuDataTransferers) :
                  Len(m_gpuDataTransferers'[s].assignQ) > Len(m_gpuDataTransferers[s].assignQ)

DrainLoopOver(c) ==
    calls[c].pc = "barrier" \/ (Returned(c) /\ numNodes > 1 /\ NumValues(c) > 0)

C16_Issued ==
    \A c \in CallIds :
        /\ \A k \in calls[c].h2dIssued :
              /\ InputAtEntry(c, k).Device.Type = "GPU"
              /\ calls[c].allReduceRequests[k].state = "inactive"
        /\ DrainLoopOver(c) => calls[c].h2dIssued = GpuPositions(c)

\* C16: a host-to-device copy is issued only by the iteration of the drain
\* loop in which WaitAny reports the reduction of a GPU-resident tensor, for
\* that tensor, and at most once for it; none is issued for a CPU-resident
\* tensor; and when the drain loop is over, whatever the order in which the
\* reductions completed, one has been issued for every GPU-resident tensor.
C16_CopyBackOncePerGpuTensor == []C16_Issued /\ [][C16_Step]_vars

\* The copy back of tensor 2 is issued while the reduction of tensor 1 is
\* outstanding.
C16_Witness ==
    \E c \in CallIds :
        /\ calls[c].pc = "drain" /\ GpuPositions(c) = {1, 2}
        /\ calls[c].h2dIssued = {2}
        /\ calls[c].allReduceRequests[1].state = "active"

\* The other order: tensor 1 is copied back while tensor 2 is being reduced.
C16_WitnessOtherOrder ==
    \E c \in CallIds :
        /\ calls[c].pc = "drain" /\ GpuPositions(c) = {1, 2}
        /\ calls[c].h2dIssued = {1}
        /\ calls[c].allReduceRequests[2].state = "active"

RequestState(c, k) ==
    IF k <= Len(calls[c].allReduceRequests) THEN calls[c].allReduceRequests[k].state
    ELSE "null"

\* The state of the tensor at position k of call c: its device-to-host copy
\* issued (StagedIn), its reduction issued (Reducing), completed by the
\* transport (Reduced), its copy back issued (StagedOut), and Done once the
\* copy back has completed (GPU) or WaitAny has reported the reduction (CPU).
TensorState(c, k) ==
    CASE k \in calls[c].h2dDone -> "Done"
      [] k \in calls[c].h2dIssued \ calls[c].h2dDone -> "StagedOut"
      [] k \notin calls[c].h2dIssued /\ RequestState(c, k) = "inactive" ->
            IF InputAtEntry(c, k).Device.Type = "GPU" THEN "Reduced" ELSE "Done"
      [] k \notin calls[c].h2dIssued /\ RequestState(c, k) = "complete" -> "Reduced"
      [] k \notin calls[c].h2dIssued /\ RequestState(c, k) = "active" -> "Reducing"
      [] k \notin calls[c].h2dIssued /\ RequestState(c, k) = "null"
            /\ k \in calls[c].d2hIssued -> "StagedIn"
      [] OTHER -> "Pending"

\* The state that follows `state` for a tensor on a device of type `type`.
NextTensorState(state, type) ==
    CASE state = "Pending"   -> IF type = "GPU" THEN "StagedIn" ELSE "Reducing"
      [] state = "StagedIn"  -> "Reducing"
      [] state = "Reducing"  -> "Reduced"
      [] state = "Reduced"   -> IF type = "GPU" THEN "StagedOut" ELSE "Done"
      [] state = "StagedOut" -> "Done"
      [] OTHER               -> "Done"

\* Within a call, a step leaves a tensor in its state or moves it to the next.
C17_Step ==
    ncalls' = ncalls =>
        \A c \in CallIds : \A k \in 1..NumValues(c) :
            \/ TensorState(c, k)' = TensorState(c, k)
            \/ TensorState(c, k)' =
                  NextTensorState(TensorState(c, k), InputAtEntry(c, k).Device.Type)

C17_CpuSkipsStaging ==
    \A c \in CallIds : \A k \in 1..NumValues(c) :
        InputAtEntry(c, k).Device.Type # "GPU" =>
            /\ k \notin calls[c].d2hIssued \cup calls[c].h2dIssued
            /\ TensorState(c, k) \notin {"StagedIn", "StagedOut"}

C17_ReturnedMeansDone ==
    \A c \in CallIds :
        Returned(c) => \A k \in 1..NumValues(c) : TensorState(c, k) = "Done"

C17_ReturnedMeansDoneOnManyWorkers ==
    \A c \in CallIds :
        (Returned(c) /\ numNodes > 1) =>
            \A k \in 1..NumValues(c) : TensorState(c, k) = "Done"

\* C17, as claimed: each tensor of a call moves only forward, state by state,
\* CPU tensors skipping StagedIn and StagedOut, and a call returns only when
\* every tensor of its request is Done, whatever the number of workers.
C17_ForwardUntilAllDone ==
    /\ []C17_CpuSkipsStaging
    /\ []C17_ReturnedMeansDone
    /\ [][C17_Step]_vars

\* C17, amended: each tensor of a call moves only forward, state by state,
\* CPU tensors skipping StagedIn and StagedOut; on N > 1 workers a call
\* returns only when every tensor of its request is Done (with one worker
\* the call returns at once and every tensor is still Pending).
C17_ForwardUntilAllDoneOnManyWorkers ==
    /\ []C17_CpuSkipsStaging
    /\ []C17_ReturnedMeansDoneOnManyWorkers
    /\ [][C17_Step]_vars

\* A call on a CPU and a GPU tensor has returned with both Done.
C17_Witness ==
    \E c \in CallIds :
        /\ Returned(c) /\ numNodes > 1 /\ NumValues(c) = 2
        /\ InputAtEntry(c, 1).Device.Type = "CPU" /\ InputAtEntry(c, 2).Device.Type = "GPU"
        /\ TensorState(c, 1) = "Done" /\ TensorState(c, 2) = "Done"
        /\ 2 \in calls[c].d2hIssued

\* The request of call c is one the operations accept: dense tensors of a
\* supported type, at most one GPU device id, matching pairs.
ValidRequest(c) ==
    /\ calls[c].pc # "idle"
    /\ \A k \in 1..NumValues(c) :
          /\ InputAtEntry(c, k).StorageFormat = "Dense"
          /\ InputAtEntry(c, k).DataType \in {"Float", "Double"}
    /\ ~MixedGpuIds(c)
    /\ PairsMatch(c)

ReportedComplete(c) ==
    {k \in 1..Len(calls[c].allReduceRequests) :
        calls[c].allReduceRequests[k].state = "inactive"}

\* Every iteration of the drain loop but a last one that gets the sentinel
\* reports one request, and no request is reported twice; the loop goes on
\* while a request is unreported and stops after numValues reports, or at the
\* sentinel.
C18_DrainLoop ==
    \A c \in CallIds :
        /\ calls[c].numAllReduceRequestsCompleted = Cardinality(ReportedComplete(c))
        /\ calls[c].pc = "drain" =>
              /\ calls[c].nWaitAny = calls[c].numAllReduceRequestsCompleted
              /\ calls[c].numAllReduceRequestsCompleted < NumValues(c)
        /\ DrainLoopOver(c) =>
              \/ /\ calls[c].nWaitAny = NumValues(c)
                 /\ calls[c].numAllReduceRequestsCompleted = NumValues(c)
              \/ /\ calls[c].nWaitAny = calls[c].numAllReduceRequestsCompleted + 1
                 /\ OutstandingRequests(c) = {}

AllocationFailed(c) == Failed(c) /\ calls[c].err = "RuntimeError: allocation failed"

\* C18: when threads run and every issued copy and reduction completes, every
\* call on a valid request eventually returns (unless the allocation of a
\* staging buffer fails, which ends the call with that error); the drain loop
\* makes one iteration per reduction reported complete, stops after the last
\* one or at the sentinel, and is never given a report for a request that was
\* already reported.
C18_ValidCallsReturn ==
    /\ []C18_DrainLoop
    /\ \A c \in CallIds : ValidRequest(c) ~> (Returned(c) \/ AllocationFailed(c))

\* A call on two GPU tensors has left the drain loop after two reports.
C18_Witness ==
    \E c \in CallIds :
        /\ Returned(c) /\ ValidRequest(c) /\ numNodes > 1
        /\ GpuPositions(c) = {1, 2}
        /\ calls[c].nWaitAny = 2 /\ ReportedComplete(c) = {1, 2}

\* Initialize has returned the slot indices of call c without an error.
Initialized(c) ==
    \/ calls[c].pc \in {"stagein", "reduce", "drain", "barrier"}
    \/ Returned(c) /\ numNodes > 1 /\ NumValues(c) > 0

ByteSize(view) == view.TotalSize * (IF view.DataType = "Float" THEN 4 ELSE 8)

\* C20: after Initialize has succeeded for a request with g GPU-resident
\* inputs, the k-th of them in input order holds slot index k - 1 (so the
\* indices are 0..g-1 and none is used twice), every other input holds
\* CPUDEVICE, every assigned slot has a transfer engine and a staging buffer
\* of at least the byte size of its tensor, and there are as many engines as
\* buffers (at every moment).
C20_SlotsAfterInitialize ==
    /\ Len(m_gpuDataTransferers) = Len(m_intermediateCPUBuffers)
    /\ \A c \in CallIds :
          Initialized(c) =>
             /\ Len(calls[c].indices) = NumValues(c)
             /\ \A k \in 1..NumValues(c) :
                   IF k \in GpuPositions(c)
                   THEN /\ calls[c].indices[k] = Cardinality({j \in GpuPositions(c) : j < k})
                        /\ calls[c].indices[k] + 1 <= Len(m_gpuDataTransferers)
                        /\ calls[c].indices[k] + 1 <= Len(m_intermediateCPUBuffers)
                        /\ m_intermediateCPUBuffers[calls[c].indices[k] + 1].totalSize
                              >= ByteSize(InputAtEntry(c, k))
                   ELSE calls[c].indices[k] = CPUDEVICE
             /\ \A k, j \in GpuPositions(c) :
                   k # j => calls[c].indices[k] # calls[c].indices[j]
             /\ {calls[c].indices[k] : k \in GpuPositions(c)}
                   = 0..(Cardinality(GpuPositions(c)) - 1)

\* A second call, on two GPU tensors of 16 bytes each.
C20_Witness ==
    \E c \in CallIds :
        /\ ncalls = 2 /\ calls[c].pc = "stagein" /\ NumValues(c) = 2
        /\ GpuPositions(c) = {1, 2} /\ calls[c].indices = <<0, 1>>
        /\ InputAtEntry(c, 2).DataType = "Double"
        /\ m_intermediateCPUBuffers[2].totalSize = 8 * NumElements
        /\ m_intermediateCPUBuffers[1].totalSize = 8 * NumElements

C20_WitnessMixed ==
    \E c \in CallIds :
        /\ calls[c].pc = "reduce" /\ NumValues(c) = 2
        /\ calls[c].indices = <<CPUDEVICE, 0>>

\* Call d has a reduction on the staging buffer of slot s that is issued and
\* not yet reported by WaitAny, or a copy back from that buffer still queued.
OutstandingOn(d, s) ==
    \/ \E k \in 1..Len(calls[d].allReduceRequests) :
          /\ calls[d].allReduceRequests[k].recv = <<"buffer", s>>
          /\ calls[d].allReduceRequests[k].state \in {"active", "complete"}
    \/ /\ s <= Len(m_gpuDataTransferers)
       /\ \E n \in 1..Len(m_gpuDataTransferers[s].assignQ) :
             m_gpuDataTransferers[s].assignQ[n].call = d

\* A device-to-host copy of call c into the staging buffer of slot s is queued.
StageInQueued(c, s) ==
    /\ s <= Len(m_gpuDataTransferers)
    /\ \E n \in 1..Len(m_gpuDataTransferers[s].fetchQ) :
          m_gpuDataTransferers[s].fetchQ[n].call = c

\* The staging buffer of slot s was reallocated and holds nothing.
Released(s) ==
    s <= Len(m_intermediateCPUBuffers) /\ m_intermediateCPUBuffers[s].data = <<>>

\* A stage-in copy of call c is about to overwrite the staging buffer of slot
\* s, or the buffer has been released by a reallocation, while call d has a
\* reduction or a copy back outstanding on it.
Clobbers(c, d, s) ==
    /\ c # d
    /\ OutstandingOn(d, s)
    /\ StageInQueued(c, s) \/ (Released(s) /\ calls[c].numGPUValues >= s)

Interference == \E c, d \in CallIds : \E s \in 1..MaxValues : Clobbers(c, d, s)

\* The caller has made a call while another one was running in the background.
CallsOverlap == \E c \in CallIds : calls[c].overlaps

WrongResult(c) ==
    /\ Returned(c) /\ numNodes > 1
    /\ \E k \in 1..NumValues(c) :
          OutputNow(c, k).data # SumOverWorkers(k, InputAtEntry(c, k).TotalSize)

\* C19 (calls on one GPU tensor each): every call uses the one staging buffer
\* and the one transfer engine of slot 0; and as long as the caller has kept
\* one call in flight at a time, no stage-in copy and no reallocation of a
\* call touches the staging buffer while another call has a reduction or a
\* copy back outstanding on it, and every call that returns has the sums.
C19_SerializedCallsDoNotInterfere ==
    /\ Len(m_intermediateCPUBuffers) <= 1 /\ Len(m_gpuDataTransferers) <= 1
    /\ \A c \in CallIds : Initialized(c) => calls[c].indices = <<0>>
    /\ ~CallsOverlap => ~Interference /\ \A c \in CallIds : ~WrongResult(c)

\* Two calls in flight: the stage-in copy of one is queued on the buffer on
\* which the reduction of the other is outstanding.
C19_Witness ==
    /\ CallsOverlap
    /\ \E c, d \in CallIds :
          /\ c # d /\ StageInQueued(c, 1)
          /\ calls[d].pc = "drain" /\ calls[d].allReduceRequests[1].state = "active"
          /\ calls[c].indices = <<0>> /\ calls[d].indices = <<0>>

\* Two calls in flight: one has reallocated the buffer on which the reduction
\* of the other is outstanding.
C19_WitnessReleased ==
    /\ CallsOverlap
    /\ \E c, d \in CallIds :
          /\ c # d /\ OutstandingOn(d, 1) /\ Released(1)
          /\ calls[c].pc = "stagein"
          /\ m_intermediateCPUBuffers[1].totalSize = 8 * NumElements
          /\ InputAtEntry(d, 1).DataType = "Float"

\* A call that overlapped another has returned without the sums.
C19_WitnessWrongResult == CallsOverlap /\ \E c \in CallIds : WrongResult(c)

=============================================================================
